---- MODULE Spec2Model ----
(***************************************************************************)
(* Single-use QR admission tokens: the token store (Firestore collection   *)
(* "qrTokens"), the two redemption variants of verifyQRToken (transaction  *)
(* and lookup-then-update), and the guarded scanner component              *)
(* QRPaymentVerifier (scanLockedRef, unlock timers, camera ticks).         *)
(***************************************************************************)
EXTENDS Integers, Sequences, FiniteSets

(* ------------------------------ bounds -------------------------------- *)
\* number of verifyQRToken activations a behaviour may start
MaxCalls == 3
\* the reading of the wall clock saturates here (ms)
MaxNow == 100
\* largest step by which the model lets time pass at once (ms)
Quantum == 1500
\* scanFrame activations that may await detector.detect at once
MaxTicks == 2
\* startCamera activations that may be awaiting getUserMedia or play at once
MaxStarts == 2
\* sampling intervals that may be live at once
MaxIntervals == 2
\* scanFrame activations of the embedded-scope scanner that may await
\* detector.detect at once
MaxEmbTicks == 2

\* verifyQRToken calls one scanner device may start
MaxScans == 2
\* unlock timeouts that may be pending at once
MaxTimers == 2
\* documents the collection qrTokens can hold
MaxDocs == 20
\* CSV rows for which a behaviour starts issuing tokens
MaxRows == 2

(* ------------------------- program constants -------------------------- *)
\* setTimeout(..., 1500) after a result
Cooldown == 1500
\* setTimeout(..., 100) after an empty payload
EmptyUnlockDelay == 100

(* --------------------------- the token store -------------------------- *)
\* strings are sequences of characters, so that trim() can be computed
TokA == <<"a">>
TokB == <<"b">>
TokNone == <<"z">>

DocIds == 1..MaxDocs
CallIds == 1..MaxCalls

\* a field that was never written (JavaScript undefined)
Undefined == <<>>

\* the document addDoc writes for one (student, examDate, tripType)
NewTokenDoc(tok, phone, examDate, tripType) ==
  [token |-> tok, phone |-> phone, examDate |-> examDate, tripType |-> tripType,
   used |-> FALSE, usedAt |-> Undefined, ver |-> 0]

NoData == [token |-> <<>>, phone |-> "", examDate |-> "", tripType |-> "",
           used |-> FALSE, usedAt |-> Undefined, ver |-> 0]

\* the collection after the first two addDoc calls of a generateTokens run:
\* every record unused, the other documents not yet created
InitialStore ==
  [d \in DocIds |->
     IF d = 1 THEN NewTokenDoc(TokA, "p1", "2025-12-16", "going")
     ELSE IF d = 2 THEN NewTokenDoc(TokB, "p1", "2025-12-16", "return")
     ELSE NoData]

VARIABLES
  store,          \* DocIds -> token record (collection qrTokens)
  now,            \* wall clock, ms
  call,           \* CallIds -> activation of verifyQRToken
  scanLockedRef,  \* the single-flight guard of the component
  result,         \* React state result
  scanTable,      \* React state scanTable, newest entry first
  timers,         \* pending unlock timeouts: ms left, ascending
  sinceResult,    \* ms since a 'success' or 'used' result was set (saturates)
  scanTimer,      \* scanTimer.current holds an interval
  intervals,      \* number of live setInterval loops
  streamRef,      \* streamRef.current holds a stream
  videoSrc,       \* videoRef.current.srcObject is a stream
  videoWidth,     \* videoRef.current.videoWidth is non-zero
  detector,       \* detector.current is a BarcodeDetector
  starts,         \* startCamera activations: [gum, play] counts
  ticks,          \* scanFrame activations awaiting detector.detect
  hist,           \* observations of the run, read by the properties only
  supportMsg,     \* React state supportMsg, the line shown under the video
  emb,            \* the embedded-scope scanner component: its paidList,
                  \* usedMap, scanTable and result
  lud,            \* the lookup-then-update scanner component: its result,
                  \* scanTable, sampling interval and pending ticks
  adm,            \* the admin page: React state csvText and status
  stu             \* the student page: its inputs, token, error, the queries
                  \* awaiting getDocs and the outcome of the last press

storeVars == <<store, now, call>>
guardVars == <<scanLockedRef, result, scanTable, timers, sinceResult>>
camVars == <<scanTimer, intervals, streamRef, videoSrc, videoWidth,
             detector, starts, ticks, supportMsg>>
devVars == <<guardVars, camVars, hist>>
pageVars == <<adm, stu>>
vars == <<storeVars, devVars, emb, lud, pageVars>>

Min(a, b) == IF a <= b THEN a ELSE b

(* ------------------------------ strings ------------------------------- *)
IsSpace(ch) == ch = " "

RECURSIVE TrimStart(_)
TrimStart(str) ==
  IF str # <<>> /\ IsSpace(Head(str)) THEN TrimStart(Tail(str)) ELSE str

RECURSIVE TrimEnd(_)
TrimEnd(str) ==
  IF str # <<>> /\ IsSpace(str[Len(str)])
    THEN TrimEnd(SubSeq(str, 1, Len(str) - 1)) ELSE str

\* String(raw || "").trim()
Trim(raw) == TrimEnd(TrimStart(raw))

(* ------------------------- verifyQRToken calls ------------------------ *)
\* query(collection, where("token", "==", token)); getDocs: the matching docs
QueryByToken(st, token) == {d \in DocIds : st[d].token = token}

\* snapshot.docs[0]: results come ordered by document id
FirstDoc(S) == CHOOSE d \in S : \A e \in S : d <= e

NoPend == [status |-> "none", write |-> FALSE]

IdleCall == [pc |-> "idle", variant |-> "none", origin |-> "none",
             token |-> <<>>, ref |-> 0,
             snap |-> NoData, pend |-> NoPend, usedAt |-> 0,
             status |-> "none", data |-> NoData, writes |-> 0,
             failed |-> FALSE, afterSuccess |-> FALSE]

\* some call has already returned 'success' for this token string
SuccessReturned(token) ==
  \E c \in CallIds : call[c].pc = "done" /\ call[c].status = "success"
                     /\ call[c].token = token

\* entry into verifyQRToken(token): the query is sent
Enter(variant, origin, token) ==
  [IdleCall EXCEPT !.pc = "getDocs", !.variant = variant, !.origin = origin,
                   !.token = token, !.afterSuccess = SuccessReturned(token)]

\* return { status, data }
Return(rec, status, data) ==
  [rec EXCEPT !.pc = "done", !.status = status, !.data = data]

\* a new activation takes the first free record
NextFree(c) == call[c].pc = "idle" /\ \A b \in CallIds : b < c => call[b].pc # "idle"

\* verifyQRToken calls of the component that have not returned
InFlight == {c \in CallIds : call[c].pc \notin {"idle", "done"}}

(* ------------------ the component: guard and results ------------------ *)
NoResult == [type |-> "null", raw |-> <<>>, contact |-> Undefined,
             examDate |-> "", session |-> "", usedAt |-> Undefined]

\* res.data.contact: the field is read from the record if it has one
ContactOf(data) == IF "contact" \in DOMAIN data THEN <<data.contact>> ELSE Undefined

\* setTimeout: the timeout joins the pending ones, ordered by time left
RECURSIVE TimerInsert(_, _)
TimerInsert(ts, ms) ==
  IF ts = <<>> \/ ms < Head(ts) THEN <<ms>> \o ts
  ELSE <<Head(ts)>> \o TimerInsert(Tail(ts), ms)

\* the guard was cleared: a new window of the guard starts
WindowReset(h) == [h EXCEPT !.winDecodes = 0, !.winCalls = 0]

\* mutant: processScan without its guard check
ProcessScanEntersAlways(locked) == TRUE

\* if (scanLockedRef.current) return;
ProcessScanEnters(locked) == ~locked

\* setResult(...) for the status verifyQRToken returned
ResultFor(token, status, data) ==
  IF status = "invalid"
    THEN [NoResult EXCEPT !.type = "notpaid", !.raw = token]
  ELSE IF status = "used"
    THEN [NoResult EXCEPT !.type = "used", !.raw = token,
                          !.examDate = data.examDate, !.session = data.tripType,
                          !.usedAt = data.usedAt]
  ELSE IF status = "success"
    THEN [NoResult EXCEPT !.type = "paid", !.raw = token,
                          !.contact = ContactOf(data),
                          !.examDate = data.examDate, !.session = data.tripType]
  ELSE [NoResult EXCEPT !.type = "error", !.raw = token]

\* mutant: the entry takes its id from the table and goes to the end of it
TableForAppended(table, status, data) ==
  IF status = "success"
    THEN table \o <<[id |-> Len(table), contact |-> ContactOf(data),
                     examDate |-> data.examDate, session |-> data.tripType]>>
    ELSE table

\* mutant: an entry is added to the table whatever the status
TableForAlways(table, status, data) ==
  <<[id |-> Len(table) + 1, contact |-> ContactOf(data),
     examDate |-> data.examDate, session |-> data.tripType]>> \o table

\* setScanTable(prev => [{id: prev.length + 1, ...}, ...prev]) on success
TableFor(table, status, data) ==
  IF status = "success"
    THEN <<[id |-> Len(table) + 1, contact |-> ContactOf(data),
            examDate |-> data.examDate, session |-> data.tripType]>> \o table
    ELSE table

\* the block of the result section that render draws for the state `res`:
\* {result && ...} with one block each for "paid", "used" and "notpaid"
Rendered(res) ==
  IF res.type \in {"paid", "used", "notpaid"} THEN res.type ELSE "nothing"

\* processScan after await verifyQRToken(token): result, table, unlock timeout
ProcessScanResult(token, status, data) ==
  /\ result' = ResultFor(token, status, data)
  /\ scanTable' = TableFor(scanTable, status, data)
  /\ Len(timers) < MaxTimers
  /\ timers' = TimerInsert(timers, Cooldown)
  /\ sinceResult' = IF status \in {"success", "used"} THEN 0 ELSE sinceResult
  /\ UNCHANGED <<scanLockedRef, camVars, hist>>

\* mutant: a call that ended in 'error' is issued again for the same payload
SettleRetryOnError(rec) ==
  IF rec.pc = "done" /\ rec.origin # "direct"
    THEN IF rec.status = "error" THEN Enter("txn", rec.origin, rec.token)
         ELSE IdleCall
    ELSE rec

\* what becomes of the activation record `rec` after the step: a call made by
\* processScan is over once processScan has taken its result
Settle(rec) ==
  IF rec.pc = "done" /\ rec.origin # "direct" THEN IdleCall ELSE rec

\* the awaiting processScan resumes in the step in which its call returns `rec`
Resume(rec) ==
  IF rec.pc = "done" /\ rec.origin \in {"paste", "camera"}
    THEN ProcessScanResult(rec.token, rec.status, rec.data)
    ELSE UNCHANGED devVars

(* --------------- verifyQRToken, transactional variant ----------------- *)
\* mutant: the data.used check of the update function is missing
UpdateFunctionNoUsedCheck(exists, data) ==
  IF ~exists THEN [status |-> "invalid", write |-> FALSE]
  ELSE [status |-> "success", write |-> TRUE]

\* mutant: the 'used' branch stamps the record again before returning
UpdateFunctionRestamp(exists, data) ==
  IF ~exists THEN [status |-> "invalid", write |-> FALSE]
  ELSE IF data.used = TRUE THEN [status |-> "used", write |-> TRUE]
  ELSE [status |-> "success", write |-> TRUE]

\* the function handed to runTransaction, applied to the snapshot it read:
\* the status it returns and whether it called transaction.update
UpdateFunction(exists, data) ==
  IF ~exists THEN [status |-> "invalid", write |-> FALSE]
  ELSE IF data.used = TRUE THEN [status |-> "used", write |-> FALSE]
  ELSE [status |-> "success", write |-> TRUE]

\* mutant: the transaction sets the flag without the time
TransactionUpdateFlagOnly(st, d, at) ==
  [st EXCEPT ![d].used = TRUE, ![d].ver = @ + 1]

\* transaction.update(qrDocRef, {used: true, usedAt: new Date().toISOString()})
TransactionUpdate(st, d, at) ==
  [st EXCEPT ![d].used = TRUE, ![d].usedAt = <<at>>, ![d].ver = @ + 1]

\* runTransaction commits only if the document read is unchanged since the read
Stale(c) == store[call[c].ref].ver # call[c].snap.ver

\* await getDocs(q) resolves
TxGetDocs(c) ==
  /\ call[c].pc = "getDocs" /\ call[c].variant = "txn"
  /\ LET S == QueryByToken(store, call[c].token)
         rec == IF S = {} THEN Return(call[c], "invalid", NoData)
                ELSE [call[c] EXCEPT !.pc = "txGet", !.ref = FirstDoc(S)]
     IN /\ call' = [call EXCEPT ![c] = Settle(rec)]
        /\ Resume(rec)
  /\ UNCHANGED <<store, now>>
  /\ UNCHANGED <<emb, lud, pageVars>>

\* await transaction.get(qrDocRef) resolves and the update function runs
TxGet(c) ==
  /\ call[c].pc = "txGet"
  /\ LET data == store[call[c].ref] IN
       call' = [call EXCEPT ![c].pc = "txCommit", ![c].snap = data,
                            ![c].pend = UpdateFunction(TRUE, data),
                            ![c].usedAt = now]
  /\ UNCHANGED <<store, now, devVars>>
  /\ UNCHANGED <<emb, lud, pageVars>>

\* the transaction commits, or is run again because the document changed
TxCommit(c) ==
  /\ call[c].pc = "txCommit"
  /\ IF call[c].pend.write /\ Stale(c)
       THEN /\ call' = [call EXCEPT ![c].pc = "txGet"]
            /\ UNCHANGED <<store, devVars>>
       ELSE LET rec == Return([call[c] EXCEPT !.writes =
                                 IF call[c].pend.write THEN @ + 1 ELSE @],
                              call[c].pend.status, call[c].snap)
            IN /\ store' = IF call[c].pend.write
                              THEN TransactionUpdate(store, call[c].ref, call[c].usedAt)
                              ELSE store
               /\ call' = [call EXCEPT ![c] = Settle(rec)]
               /\ Resume(rec)
  /\ UNCHANGED now
  /\ UNCHANGED <<emb, lud, pageVars>>

(* ------------- the lookup-then-update scanner component -------------- *)
\* the component as mounted. cam: a sampling interval is live, and whether a
\* detector exists; pending: the scanFrame activations awaiting detect, TRUE
\* for those begun since the last startCamera; scans, verifies: the
\* processScan and verifyQRToken calls that ticks begun since the last
\* startCamera have made (both saturate at 2); last: the outcome of the last
\* processScan call that has ended. The id and time of a table entry are left
\* out.
EmptyLud == [result |-> "null", scanTable |-> <<>>, cam |-> <<>>, pending |-> <<>>,
             scans |-> 0, verifies |-> 0, last |-> "none"]

InitLud == lud = EmptyLud

\* processScan after await verifyQRToken(token): only 'success' is handled
LudResult(l, status, data) ==
  IF status = "success"
    THEN [l EXCEPT !.scanTable = Append(@, [contact |-> ContactOf(data),
                                            examDate |-> data.examDate,
                                            session |-> data.tripType]),
                   !.result = "paid", !.last = status]
    ELSE [l EXCEPT !.last = status]

\* the awaiting processScan of the component resumes in the step in which its
\* call returns `rec`
LudResume(rec) ==
  IF rec.pc = "done" /\ rec.origin = "lud"
    THEN lud' = LudResult(lud, rec.status, rec.data)
    ELSE UNCHANGED lud

\* processScan(raw) up to await verifyQRToken: stopCamera(); an empty token
\* sets the 'Empty QR' result. `l` is the component when the call is made,
\* `tick` tells whether a tick begun since the last startCamera makes it
LudProcessScan(raw, l, tick) ==
  LET token == Trim(raw)
      l1 == [l EXCEPT !.cam = <<>>,
                      !.scans = IF tick THEN Min(2, @ + 1) ELSE @]
  IN IF token = <<>>
       THEN /\ lud' = [l1 EXCEPT !.result = "notpaid", !.last = "empty"]
            /\ UNCHANGED call
       ELSE \E c \in 1..MaxScans :
            /\ NextFree(c)
            /\ call' = [call EXCEPT ![c] = Enter("lu", "lud", token)]
            /\ lud' = [l1 EXCEPT !.verifies = IF tick THEN Min(2, @ + 1) ELSE @]

\* what the camera of this scanner may show and what the operator may paste
LudCodes == {<<>>, TokA}
LudPastes == {TokA, TokNone}

\* const v = prompt("Paste QR value:"); if (v) processScan(v)
LudPaste(v) ==
  /\ LudProcessScan(v, lud, FALSE)
  /\ UNCHANGED <<store, now, devVars, emb, pageVars>>

\* startCamera() got through: initDetector, clearInterval, setInterval
LudStartCamera ==
  /\ \E native \in BOOLEAN :
       lud' = [lud EXCEPT !.cam = <<native>>, !.scans = 0, !.verifies = 0,
                          !.pending = [i \in DOMAIN @ |-> FALSE]]
  /\ UNCHANGED <<storeVars, devVars, emb, pageVars>>

\* stopCamera(): clearInterval
LudStopCamera ==
  /\ lud.cam # <<>>
  /\ lud' = [lud EXCEPT !.cam = <<>>]
  /\ UNCHANGED <<storeVars, devVars, emb, pageVars>>

\* the interval fires with a detector: scanFrame() up to await detect
LudScanFrame ==
  /\ lud.cam # <<>> /\ lud.cam[1]
  /\ Len(lud.pending) < MaxTicks
  /\ lud' = [lud EXCEPT !.pending = Append(@, TRUE)]
  /\ UNCHANGED <<storeVars, devVars, emb, pageVars>>

\* await detector.current.detect(video) resolves with the code raw (<<>>: no
\* code): if (codes && codes.length) processScan(codes[0].rawValue)
LudDetectResolve(raw) ==
  /\ lud.pending # <<>>
  /\ LET l == [lud EXCEPT !.pending = Tail(@)] IN
       IF raw = <<>>
         THEN lud' = l /\ UNCHANGED call
         ELSE LudProcessScan(raw, l, Head(lud.pending))
  /\ UNCHANGED <<store, now, devVars, emb, pageVars>>

\* the interval fires without a detector: jsQR on the frame finds the code raw
LudJsQR(raw) ==
  /\ lud.cam # <<>> /\ ~lud.cam[1]
  /\ IF raw = <<>>
       THEN UNCHANGED <<lud, call>>
       ELSE LudProcessScan(raw, lud, TRUE)
  /\ UNCHANGED <<store, now, devVars, emb, pageVars>>

(* ------------- verifyQRToken, lookup-then-update variant -------------- *)
\* mutant: the write is applied only if the record is still unused
UpdateDocIfUnused(st, d, at) ==
  IF st[d].used THEN st
  ELSE [st EXCEPT ![d].used = TRUE, ![d].usedAt = <<at>>, ![d].ver = @ + 1]

\* mutant: the write marks every token of the same phone
UpdateDocOfPhone(st, d, at) ==
  [e \in DocIds |->
     IF st[e].token # <<>> /\ st[e].phone = st[d].phone
       THEN [st[e] EXCEPT !.used = TRUE, !.usedAt = <<at>>, !.ver = @ + 1]
       ELSE st[e]]

\* mutant: the write flips the flag it finds
UpdateDocToggle(st, d, at) ==
  [st EXCEPT ![d].used = ~@, ![d].usedAt = <<at>>, ![d].ver = @ + 1]

\* updateDoc(doc(db, "qrTokens", qrDoc.id), {used: true, usedAt: new Date()})
UpdateDoc(st, d, at) ==
  [st EXCEPT ![d].used = TRUE, ![d].usedAt = <<at>>, ![d].ver = @ + 1]

\* await getDocs(q) resolves: the decision is taken on this snapshot
LuGetDocs(c) ==
  /\ call[c].pc = "getDocs" /\ call[c].variant = "lu"
  /\ LET S == QueryByToken(store, call[c].token)
         ret == IF S = {} THEN Return(call[c], "invalid", NoData)
                ELSE LET data == store[FirstDoc(S)]
                         rec == [call[c] EXCEPT !.ref = FirstDoc(S), !.snap = data]
                     IN IF data.used = TRUE THEN Return(rec, "used", NoData)
                        ELSE [rec EXCEPT !.pc = "update", !.usedAt = now]
     IN /\ call' = [call EXCEPT ![c] = Settle(ret)]
        /\ LudResume(ret)
  /\ UNCHANGED <<store, now, devVars>>
  /\ UNCHANGED <<emb, pageVars>>

\* await updateDoc(...) resolves
LuUpdate(c) ==
  /\ call[c].pc = "update"
  /\ store' = UpdateDoc(store, call[c].ref, call[c].usedAt)
  /\ LET ret == Return([call[c] EXCEPT !.writes = @ + 1], "success", call[c].snap)
     IN /\ call' = [call EXCEPT ![c] = Settle(ret)]
        /\ LudResume(ret)
  /\ UNCHANGED <<now, devVars>>
  /\ UNCHANGED <<emb, pageVars>>

\* getDocs, runTransaction or updateDoc rejects:
\* catch (err) { return { status: "error" } }
StoreFails(c) ==
  /\ call[c].pc \in {"getDocs", "txGet", "txCommit", "update"}
  /\ LET rec == Return([call[c] EXCEPT !.failed = TRUE], "error", NoData)
     IN /\ call' = [call EXCEPT ![c] = Settle(rec)]
        /\ Resume(rec)
        /\ LudResume(rec)
  /\ UNCHANGED <<store, now>>
  /\ UNCHANGED <<emb, pageVars>>

\* a device calls verifyQRToken(token)
InvokeTxn(c, token) ==
  /\ NextFree(c)
  /\ call' = [call EXCEPT ![c] = Enter("txn", "direct", token)]
  /\ UNCHANGED <<store, now, devVars>>
  /\ UNCHANGED <<emb, lud, pageVars>>

InvokeLu(c, token) ==
  /\ NextFree(c)
  /\ call' = [call EXCEPT ![c] = Enter("lu", "direct", token)]
  /\ UNCHANGED <<store, now, devVars>>
  /\ UNCHANGED <<emb, lud, pageVars>>

(* ------------------- the issuer: AdminGenerateQR ---------------------- *)
\* const examDates = [...]
ExamDates == <<"2025-12-16", "2025-12-18", "2025-12-20", "2025-12-22", "2025-12-24">>
\* for (const tripType of ["going", "return"])
TripTypes == <<"going", "return">>

\* uuidv4(): the token of the d-th document created is a string no other
\* document has ("z" is never issued)
TokenChars == <<"a", "b", "c", "d", "e", "f", "g", "h", "i", "j", "k", "l", "m",
                "n", "o", "p", "q", "r", "s", "t", "u", "v", "w", "x", "y">>
Uuid(d) == <<TokenChars[d]>>

\* str.split(sep)
RECURSIVE SplitOn(_, _)
SplitOn(str, sep) ==
  IF str = <<>> THEN << <<>> >>
  ELSE LET rest == SplitOn(Tail(str), sep) IN
       IF Head(str) = sep THEN << <<>> >> \o rest
       ELSE << <<Head(str)>> \o Head(rest) >> \o Tail(rest)

Digits == {"0", "1", "2", "3", "4", "5", "6", "7", "8", "9"}
IsDigit(ch) == ch \in Digits
\* phone?.replace(/\D/g, "")
DigitsOnly(str) == SelectSeq(str, IsDigit)

\* rows.map((r) => r.trim())
RECURSIVE TrimAll(_)
TrimAll(rows) ==
  IF rows = <<>> THEN <<>> ELSE <<Trim(Head(rows))>> \o TrimAll(Tail(rows))

NonEmpty(str) == str # <<>>

\* const [phone, name, semester] = row.split(","); the student of the row
StudentOf(row) ==
  LET f == SplitOn(row, ",") IN
  [phone |-> DigitsOnly(f[1]),
   name |-> IF Len(f) >= 2 THEN <<Trim(f[2])>> ELSE Undefined,
   semester |-> IF Len(f) >= 3 THEN <<Trim(f[3])>> ELSE Undefined]

RECURSIVE StudentsOf(_)
StudentsOf(rows) ==
  IF rows = <<>> THEN <<>> ELSE <<StudentOf(Head(rows))>> \o StudentsOf(Tail(rows))

\* parseCSV(text): split into lines, trim, drop blank lines, drop the first
\* line (slice(1)), one student per remaining line
parseCSV(text) ==
  LET rows == SelectSeq(TrimAll(SplitOn(text, "\n")), NonEmpty)
  IN StudentsOf(IF rows = <<>> THEN <<>> ELSE Tail(rows))

\* the addDoc calls of one student, in loop order: dates outside, trips inside
StudentPlan(student) ==
  [i \in 1..(Len(ExamDates) * Len(TripTypes)) |->
     [phone |-> student.phone,
      examDate |-> ExamDates[((i - 1) \div Len(TripTypes)) + 1],
      tripType |-> TripTypes[((i - 1) % Len(TripTypes)) + 1]]]

\* the addDoc calls of a run, in order
RECURSIVE RunPlan(_)
RunPlan(students) ==
  IF students = <<>> THEN <<>>
  ELSE StudentPlan(Head(students)) \o RunPlan(Tail(students))

\* what the admin may have in the box: a header and one row; a header and two
\* rows with one phone written in two ways and a blank line between them; a
\* header and a row of another phone
CsvTexts ==
  { <<"h", "\n", "9", ",", "n">>,
    <<"h", "\n", "9", ",", "n", "\n", "\n", " ", "9", "-", ",", "m", ",", "s">>,
    <<"h", "\n", "8", ",", "n">> }

\* const students = parseCSV(csvText) and the addDoc calls that follow from it
PlanOf == [text \in CsvTexts |-> RunPlan(parseCSV(text))]

\* documents that exist
Present(st) == {d \in DocIds : st[d].token # <<>>}

\* CSV rows for which at least the first token was issued
RowsStarted(st) ==
  Cardinality({d \in Present(st) : /\ st[d].examDate = ExamDates[1]
                                   /\ st[d].tripType = TripTypes[1]})

\* the store after addDoc was called for the first k entries of plan
AddDocs(st, plan, k) ==
  LET n == Cardinality(Present(st)) IN
  [d \in DocIds |->
     IF d > n /\ d <= n + k
       THEN NewTokenDoc(Uuid(d), plan[d - n].phone, plan[d - n].examDate,
                        plan[d - n].tripType)
       ELSE st[d]]

\* the status line: `count QR tokens generated successfully`, or the error
StatusDone(count) == [kind |-> "generated", count |-> count]
StatusError == [kind |-> "error", count |-> 0]
NoStatus == [kind |-> "", count |-> 0]

\* mutant: the count is set from the number of students, not counted
StatusAfterPerStudent(plan, k) ==
  IF k = Len(plan) THEN StatusDone(Len(plan) \div Len(TripTypes)) ELSE StatusError

\* count++ after every addDoc that resolved; setStatus at the end of the loops
\* or in the catch
StatusAfter(plan, k) ==
  IF k = Len(plan) THEN StatusDone(k) ELSE StatusError

\* the student page as mounted
EmptyStu == [phone |-> "", examDate |-> "", tripType |-> "", token |-> <<>>,
             error |-> "", pending |-> <<>>, last |-> "none"]

\* the admin page as mounted
EmptyAdm == [csvText |-> <<>>, status |-> NoStatus]

InitPages == adm = EmptyAdm /\ stu = EmptyStu

(* ------------------- the student page: StudentGenerateQR -------------- *)
\* generateQR calls in flight at one time (the button is never disabled)
MaxQueries == 2

MsgFill == "Fill all fields"
MsgNoValid == "No valid QR available. Contact admin."
MsgFailed == "Failed to generate QR"

\* what the student types and selects
StuPhones == {"", "p1"}
StuDates == {"", "2025-12-16"}
StuTrips == {"", "going", "return"}

\* onChange of the three inputs
StuSetPhone(v) ==
  /\ stu' = [stu EXCEPT !.phone = v]
  /\ UNCHANGED <<storeVars, devVars, emb, lud, adm>>

StuSetExamDate(v) ==
  /\ stu' = [stu EXCEPT !.examDate = v]
  /\ UNCHANGED <<storeVars, devVars, emb, lud, adm>>

StuSetTripType(v) ==
  /\ stu' = [stu EXCEPT !.tripType = v]
  /\ UNCHANGED <<storeVars, devVars, emb, lud, adm>>

\* the documents the query of generateQR selects: phone, examDate and
\* tripType equal and used == false
StuQueryDocs(st, q) ==
  {d \in DocIds : /\ st[d].token # <<>>
                  /\ st[d].phone = q.phone
                  /\ st[d].examDate = q.examDate
                  /\ st[d].tripType = q.tripType
                  /\ ~st[d].used}

\* a sequence without its i-th element
StuWithout(seq, i) == SubSeq(seq, 1, i - 1) \o SubSeq(seq, i + 1, Len(seq))

\* generateQR up to its await: error and token are emptied; with a field
\* empty the message is set and the call returns, else the query is sent
\* with the inputs of this render
generateQR ==
  /\ Len(stu.pending) < MaxQueries
  /\ IF stu.phone = "" \/ stu.examDate = "" \/ stu.tripType = ""
       THEN stu' = [stu EXCEPT !.token = <<>>, !.error = MsgFill,
                               !.last = "blank"]
       ELSE stu' = [stu EXCEPT
                      !.token = <<>>, !.error = "", !.last = "sent",
                      !.pending = Append(@, [phone |-> stu.phone,
                                             examDate |-> stu.examDate,
                                             tripType |-> stu.tripType])]
  /\ UNCHANGED <<storeVars, devVars, emb, lud, adm>>

\* getDocs of the i-th call in flight resolves: an empty snapshot sets the
\* message, else the token of snap.docs[0] is shown
StuGetDocsResolve(i) ==
  /\ i \in 1..Len(stu.pending)
  /\ LET docs == StuQueryDocs(store, stu.pending[i])
         rest == StuWithout(stu.pending, i)
     IN IF docs = {}
          THEN stu' = [stu EXCEPT !.error = MsgNoValid, !.pending = rest,
                                  !.last = "nomatch"]
          ELSE \E d \in docs :
                 stu' = [stu EXCEPT !.token = store[d].token, !.pending = rest,
                                    !.last = "match"]
  /\ UNCHANGED <<storeVars, devVars, emb, lud, adm>>

\* getDocs of the i-th call in flight rejects: the catch sets the message
StuGetDocsReject(i) ==
  /\ i \in 1..Len(stu.pending)
  /\ stu' = [stu EXCEPT !.error = MsgFailed,
                        !.pending = StuWithout(stu.pending, i),
                        !.last = "failed"]
  /\ UNCHANGED <<storeVars, devVars, emb, lud, adm>>

\* the admin puts `text` in the box and presses Generate; the first k addDoc
\* calls resolve: k = Len(plan) is a complete run, with a smaller k the next addDoc
\* rejects and the catch ends the run
generateTokens(text, k) ==
  LET plan == PlanOf[text] IN
  /\ k \in 0..Len(plan)
  /\ Cardinality(Present(store)) + k <= MaxDocs
  /\ store' = AddDocs(store, plan, k)
  /\ RowsStarted(store') <= MaxRows
  /\ adm' = [csvText |-> text, status |-> StatusAfter(plan, k)]
  /\ UNCHANGED <<now, call, devVars>>
  /\ UNCHANGED <<emb, lud, stu>>

(* -------------------------------- time -------------------------------- *)
\* every pending timeout is d ms nearer
RECURSIVE Elapse(_, _)
Elapse(ts, d) ==
  IF ts = <<>> THEN <<>> ELSE <<Head(ts) - d>> \o Elapse(Tail(ts), d)

\* time passes, up to the next pending timeout
Advance ==
  /\ IF timers = <<>> THEN TRUE ELSE Head(timers) > 0
  /\ LET d == IF timers = <<>> THEN Quantum ELSE Min(Quantum, Head(timers)) IN
       /\ now' = Min(now + d, MaxNow)
       /\ timers' = Elapse(timers, d)
       /\ sinceResult' = Min(sinceResult + d, Cooldown)
  /\ UNCHANGED <<store, call, scanLockedRef, result, scanTable, camVars, hist>>
  /\ UNCHANGED <<emb, lud, pageVars>>

\* setTimeout(() => { scanLockedRef.current = false; }, ...) comes due
TimerFire ==
  /\ timers # <<>> /\ Head(timers) = 0
  /\ timers' = Tail(timers)
  /\ scanLockedRef' = FALSE
  /\ hist' = WindowReset(hist)
  /\ UNCHANGED <<storeVars, result, scanTable, sinceResult, camVars>>
  /\ UNCHANGED <<emb, lud, pageVars>>

(* ----------------------- processScan and its callers ------------------ *)
\* processScan(raw) up to its first await, entered with the guard at `locked`;
\* h is the record of observations to keep
ProcessScan(raw, origin, locked, h) ==
  IF ~ProcessScanEnters(locked)
    THEN /\ scanLockedRef' = locked
         /\ hist' = h
         /\ UNCHANGED <<result, timers, call>>
    ELSE LET token == Trim(raw) IN
      IF token = <<>>
        THEN /\ Len(timers) < MaxTimers
             /\ scanLockedRef' = TRUE
             /\ result' = NoResult
             /\ timers' = TimerInsert(timers, EmptyUnlockDelay)
             /\ hist' = h
             /\ UNCHANGED call
        ELSE \E c \in 1..MaxScans :
             /\ NextFree(c)
             /\ call' = [call EXCEPT ![c] = Enter("txn", origin, token)]
             /\ scanLockedRef' = TRUE
             /\ result' = NoResult
             /\ hist' = [h EXCEPT !.winCalls = Min(2, @ + 1)]
             /\ UNCHANGED timers

\* the operator pastes v into the prompt
handleManualPaste(v) ==
  /\ IF v = <<>>
       THEN UNCHANGED <<scanLockedRef, result, timers, call, hist>>
       ELSE ProcessScan(v, "paste", FALSE,
                        [WindowReset(hist) EXCEPT !.stopped = FALSE])
  /\ UNCHANGED <<store, now, scanTable, sinceResult, camVars>>
  /\ UNCHANGED <<emb, lud, pageVars>>

\* what the camera may show: no code, a stored token, a blank code
CameraCodes == {<<>>, TokA, <<" ">>}
\* what the operator may paste: nothing, a blank, a stored token with a
\* trailing blank, an unknown token
PastePayloads == {<<>>, <<" ">>, <<"a", " ">>, TokNone}

\* mutant: scanFrame without its guard check
ScanFrameProceedsUnguarded(locked, width) == width

\* if (scanLockedRef.current) return; if (!video || !video.videoWidth) return;
ScanFrameProceeds(locked, width) == ~locked /\ width

\* a code was decoded: scanLockedRef.current = true; processScan(raw)
Decoded(raw, h) ==
  LET held == scanLockedRef
      entered == ProcessScanEnters(TRUE)
      h1 == IF Trim(raw) = <<>> THEN h
            ELSE [h EXCEPT !.tickGuard = IF held THEN "held" ELSE "clear",
                           !.tickCalls = IF entered THEN 1 ELSE 0,
                           !.winDecodes = Min(2, @ + 1),
                           !.heldRedeemed = @ \/ (held /\ entered)]
  IN ProcessScan(raw, "camera", TRUE, h1)

\* jsQR on the canvas copy of the frame
JsQR(h) ==
  \E code \in CameraCodes :
    IF code = <<>>
      THEN /\ hist' = h
           /\ UNCHANGED <<scanLockedRef, result, timers, call>>
      ELSE Decoded(code, h)

\* the interval fires: scanFrame() up to its first await
scanFrame ==
  /\ intervals > 0
  /\ IF ~ScanFrameProceeds(scanLockedRef, videoWidth)
       THEN UNCHANGED <<scanLockedRef, result, timers, call, hist, ticks>>
       ELSE LET h == [hist EXCEPT !.lockedTickRan = @ \/ scanLockedRef] IN
         IF detector
           THEN /\ ticks < MaxTicks
                /\ ticks' = ticks + 1
                /\ hist' = h
                /\ UNCHANGED <<scanLockedRef, result, timers, call>>
           ELSE /\ JsQR([h EXCEPT !.noFallback = FALSE])
                /\ UNCHANGED ticks
  /\ UNCHANGED <<store, now, scanTable, sinceResult, scanTimer, intervals,
                 streamRef, videoSrc, videoWidth, detector, starts, supportMsg>>
  /\ UNCHANGED <<emb, lud, pageVars>>

\* await detector.current.detect(video) resolves; with no code found the
\* function returns
DetectResolve ==
  /\ ticks > 0
  /\ ticks' = ticks - 1
  /\ \E code \in CameraCodes :
       IF code = <<>>
         THEN /\ hist' = [hist EXCEPT !.noFallback = TRUE]
              /\ UNCHANGED <<scanLockedRef, result, timers, call>>
         ELSE Decoded(code, hist)
  /\ UNCHANGED <<store, now, scanTable, sinceResult, scanTimer, intervals,
                 streamRef, videoSrc, videoWidth, detector, starts, supportMsg>>
  /\ UNCHANGED <<emb, lud, pageVars>>

\* detect rejects: catch {} and the jsQR path runs; with no frame size
\* getImageData throws and the tick ends
DetectReject ==
  /\ ticks > 0
  /\ ticks' = ticks - 1
  /\ IF videoWidth
       THEN JsQR([hist EXCEPT !.noFallback = FALSE])
       ELSE UNCHANGED <<scanLockedRef, result, timers, call, hist>>
  /\ UNCHANGED <<store, now, scanTable, sinceResult, scanTimer, intervals,
                 streamRef, videoSrc, videoWidth, detector, starts, supportMsg>>
  /\ UNCHANGED <<emb, lud, pageVars>>

(* ------------------------------ the camera ---------------------------- *)
\* the messages of setSupportMsg
MsgNative == "Native BarcodeDetector available (faster)"
MsgJsQR == "Using jsQR fallback (compatible across browsers)"
MsgUnavailable == "Camera API unavailable. Use secure connection (HTTPS)."
MsgStarted == "Camera started. Scanning..."
MsgDenied == "Camera permission denied or device error: "
MsgStopped == "Camera stopped"

\* initDetector(): the message it leaves
initDetector(native) == IF native THEN MsgNative ELSE MsgJsQR

\* startCamera() up to await getUserMedia: pauseScanning, unlock, initDetector;
\* without the camera API it sets its message and returns
startCamera ==
  /\ starts.gum + starts.play < MaxStarts
  /\ scanTimer' = FALSE
  /\ intervals' = IF scanTimer THEN intervals - 1 ELSE intervals
  /\ scanLockedRef' = FALSE
  /\ hist' = [WindowReset(hist) EXCEPT !.stopped = FALSE]
  /\ \E native \in BOOLEAN, api \in BOOLEAN :
       /\ detector' = native
       /\ starts' = IF api THEN [starts EXCEPT !.gum = @ + 1] ELSE starts
       /\ supportMsg' = IF ~api THEN MsgUnavailable ELSE initDetector(native)
  /\ UNCHANGED <<storeVars, result, scanTable, timers, sinceResult,
                 streamRef, videoSrc, videoWidth, ticks>>
  /\ UNCHANGED <<emb, lud, pageVars>>

\* getUserMedia resolves: streamRef.current = stream; video.srcObject = stream
GumResolve ==
  /\ starts.gum > 0
  /\ starts' = [starts EXCEPT !.gum = @ - 1, !.play = @ + 1]
  /\ streamRef' = TRUE
  /\ videoSrc' = TRUE
  /\ videoWidth' = FALSE
  /\ UNCHANGED <<storeVars, guardVars, hist, scanTimer, intervals, detector,
                 ticks, supportMsg>>
  /\ UNCHANGED <<emb, lud, pageVars>>

\* getUserMedia rejects: the catch sets the message
GumReject ==
  /\ starts.gum > 0
  /\ starts' = [starts EXCEPT !.gum = @ - 1]
  /\ supportMsg' = MsgDenied
  /\ UNCHANGED <<storeVars, guardVars, hist, scanTimer, intervals, streamRef,
                 videoSrc, videoWidth, detector, ticks>>
  /\ UNCHANGED <<emb, lud, pageVars>>

\* video.play() resolves: setInterval(scanFrame, 300)
PlayResolve ==
  /\ starts.play > 0 /\ videoSrc
  /\ intervals < MaxIntervals
  /\ starts' = [starts EXCEPT !.play = @ - 1]
  /\ videoWidth' = TRUE
  /\ scanTimer' = TRUE
  /\ intervals' = intervals + 1
  /\ supportMsg' = MsgStarted
  /\ UNCHANGED <<storeVars, guardVars, hist, streamRef, videoSrc,
                 detector, ticks>>
  /\ UNCHANGED <<emb, lud, pageVars>>

\* video.play() rejects: the catch sets the message
PlayReject ==
  /\ starts.play > 0
  /\ starts' = [starts EXCEPT !.play = @ - 1]
  /\ supportMsg' = MsgDenied
  /\ UNCHANGED <<storeVars, guardVars, hist, scanTimer, intervals, streamRef,
                 videoSrc, videoWidth, detector, ticks>>
  /\ UNCHANGED <<emb, lud, pageVars>>

\* mutant: stopping the camera drops the verifications in flight
stopCameraDropsCalls ==
  /\ scanTimer' = FALSE
  /\ intervals' = IF scanTimer THEN intervals - 1 ELSE intervals
  /\ streamRef' = FALSE
  /\ videoSrc' = FALSE
  /\ videoWidth' = FALSE
  /\ hist' = [hist EXCEPT !.stopped = TRUE]
  /\ supportMsg' = MsgStopped
  /\ call' = [c \in CallIds |-> IF call[c].pc \in {"idle", "done"} THEN call[c]
                                 ELSE IdleCall]
  /\ UNCHANGED <<store, now, guardVars, detector, starts, ticks>>
  /\ UNCHANGED <<emb, lud, pageVars>>

\* stopCamera(): pauseScanning, stop the tracks, detach the video
stopCamera ==
  /\ scanTimer' = FALSE
  /\ intervals' = IF scanTimer THEN intervals - 1 ELSE intervals
  /\ streamRef' = FALSE
  /\ videoSrc' = FALSE
  /\ videoWidth' = FALSE
  /\ hist' = [hist EXCEPT !.stopped = TRUE]
  /\ supportMsg' = MsgStopped
  /\ UNCHANGED <<storeVars, guardVars, detector, starts, ticks>>
  /\ UNCHANGED <<emb, lud, pageVars>>

\* mutant: the clear action also puts the token records back to unused
ClearTableResetsTokens ==
  /\ scanTable' = <<>>
  /\ store' = [d \in DocIds |->
                 [store[d] EXCEPT !.used = FALSE, !.usedAt = Undefined]]
  /\ UNCHANGED <<now, call, scanLockedRef, result, timers, sinceResult, camVars, hist>>
  /\ UNCHANGED <<emb, lud, pageVars>>

\* "Clear Local Table", confirmed: setScanTable([])
ClearTable ==
  /\ scanTable' = <<>>
  /\ UNCHANGED <<storeVars, scanLockedRef, result, timers, sinceResult, camVars, hist>>
  /\ UNCHANGED <<emb, lud, pageVars>>

(* --------------- the embedded-scope scanner component ----------------- *)
\* str.endsWith(suf)
EndsWith(str, suf) ==
  /\ Len(suf) <= Len(str)
  /\ SubSeq(str, Len(str) - Len(suf) + 1, Len(str)) = suf

\* (s || "").replace(/\D/g, "").trim()
normalizeNum(str) == Trim(DigitsOnly(str))

\* (parts[i] || "").trim(), counting from 1
PartOf(parts, i) == IF i <= Len(parts) THEN Trim(parts[i]) ELSE <<>>

\* parseQRValue(raw): "<enroll>+<date>+<session>"; ok = FALSE stands for null
parseQRValue(raw) ==
  LET cleaned == Trim(raw)
      parts == SplitOn(cleaned, "+")
  IN [ok |-> cleaned # <<>>, raw |-> cleaned,
      enrollment |-> PartOf(parts, 1),
      date |-> PartOf(parts, 2),
      session |-> PartOf(parts, 3)]

\* list.find(pred): the index of the first match, 0 for undefined
FirstOf(S) == IF S = {} THEN 0 ELSE CHOOSE i \in S : \A j \in S : i <= j

\* findStudent(qrOrEnrollment) on the paid list: by enrollment digits, then by
\* phone, then by a suffix of either
findStudent(paidList, q) ==
  LET num == normalizeNum(q)
      I == 1..Len(paidList)
      byEnroll == FirstOf({i \in I : normalizeNum(paidList[i].enrollment) = num})
      byPhone == FirstOf({i \in I : paidList[i].phone = num})
      bySuffix == FirstOf({i \in I :
                    \/ EndsWith(normalizeNum(paidList[i].enrollment), num)
                    \/ (paidList[i].phone # <<>> /\ EndsWith(paidList[i].phone, num))})
  IN IF num = <<>> THEN 0
     ELSE IF byEnroll # 0 THEN byEnroll
     ELSE IF byPhone # 0 THEN byPhone
     ELSE bySuffix

NoRec == [enrollment |-> <<>>, phone |-> <<>>, name |-> <<>>]

EmbNoResult == [type |-> "null", rec |-> NoRec, examDate |-> <<>>,
                session |-> <<>>, raw |-> <<>>]

\* `${base}|${date}|${session}`
SessionKey(base, date, session) == base \o <<"|">> \o date \o <<"|">> \o session

\* addToTable(rec, meta): the table after the call. The check and the id read
\* scanTable as the render that made the function saw it (seen); the append,
\* setScanTable((prev) => [...prev, entry]), is applied to the table as it is
addToTable(seen, table, rec, meta) ==
  IF rec.enrollment = <<>> THEN table
  ELSE IF \E i \in 1..Len(seen) : /\ seen[i].enrollment = rec.enrollment
                                  /\ seen[i].examDate = meta.date
                                  /\ seen[i].session = meta.session
    THEN table
  ELSE Append(table, [id |-> Len(seen) + 1, enrollment |-> rec.enrollment,
                      name |-> rec.name, phone |-> rec.phone,
                      examDate |-> meta.date, session |-> meta.session])

\* markUsed(rec, meta): the used map and the result after the call
markUsed(e, rec, meta) ==
  LET base == normalizeNum(rec.enrollment)
      key == SessionKey(base, meta.date, meta.session)
  IN IF base = <<>> THEN e
     ELSE [e EXCEPT
            !.usedMap = IF key \in DOMAIN e.usedMap THEN e.usedMap
                        ELSE [k \in DOMAIN e.usedMap \cup {key} |->
                                IF k = key
                                  THEN [rec |-> rec, examDate |-> meta.date,
                                        session |-> meta.session, raw |-> meta.raw]
                                  ELSE e.usedMap[k]],
            !.result = [EmbNoResult EXCEPT !.type = "paid", !.rec = rec,
                                           !.examDate = meta.date,
                                           !.session = meta.session]]

\* used.examDate || date
OrElse(a, b) == IF a # <<>> THEN a ELSE b

\* the React state a render hands to the functions it makes
Closure(e) == [usedMap |-> e.usedMap, scanTable |-> e.scanTable]

\* processScan(raw) made by a render that saw the state cl, run on the
\* component e0: stopCamera() first; usedMap and scanTable are read as that
\* render saw them, the functional updates apply to the state as it is
EmbScannedIn(e0, cl, raw) ==
  LET e == [e0 EXCEPT !.cam = <<>>]
      parsed == parseQRValue(raw) IN
  IF ~parsed.ok \/ parsed.enrollment = <<>>
    THEN [e EXCEPT !.result = [EmbNoResult EXCEPT !.type = "notpaid", !.raw = raw]]
  ELSE LET i == findStudent(e.paidList, parsed.enrollment) IN
  IF i = 0
    THEN [e EXCEPT !.result = [EmbNoResult EXCEPT !.type = "notpaid",
                                                  !.raw = parsed.raw]]
  ELSE LET rec == e.paidList[i]
           baseKey == normalizeNum(rec.enrollment)
           sessionKey == SessionKey(baseKey, parsed.date, parsed.session)
           usedKey == IF sessionKey \in DOMAIN cl.usedMap THEN sessionKey ELSE baseKey
       IN
  IF usedKey \in DOMAIN cl.usedMap
    THEN [e EXCEPT !.result =
            [EmbNoResult EXCEPT !.type = "used", !.rec = rec,
               !.examDate = OrElse(cl.usedMap[usedKey].examDate, parsed.date),
               !.session = OrElse(cl.usedMap[usedKey].session, parsed.session)]]
    ELSE markUsed([e EXCEPT !.scanTable =
                     addToTable(cl.scanTable, e.scanTable, rec, parsed)],
                  rec, parsed)

\* processScan(raw) of the render that is current (a paste, or a tick of a
\* camera started in this render): the component after the call
EmbScanned(e, raw) == EmbScannedIn(e, Closure(e), raw)

\* a payload reaches processScan of the embedded-scope scanner
EmbProcessScan(raw) ==
  /\ emb' = EmbScanned(emb, raw)
  /\ UNCHANGED <<storeVars, devVars, lud, pageVars>>

\* startCamera() of the embedded-scope scanner got through: initDetector, and
\* setInterval with the scanFrame of the render in which Start was pressed
EmbStartCamera ==
  /\ \E native \in BOOLEAN :
       emb' = [emb EXCEPT !.cam = <<[cl |-> Closure(emb), native |-> native]>>]
  /\ UNCHANGED <<storeVars, devVars, lud, pageVars>>

\* stopCamera(): clearInterval
EmbStopCamera ==
  /\ emb.cam # <<>>
  /\ emb' = [emb EXCEPT !.cam = <<>>]
  /\ UNCHANGED <<storeVars, devVars, lud, pageVars>>

\* the interval fires with a detector: scanFrame() up to await detect
EmbScanFrame ==
  /\ emb.cam # <<>> /\ emb.cam[1].native
  /\ Len(emb.pending) < MaxEmbTicks
  /\ emb' = [emb EXCEPT !.pending = Append(@, emb.cam[1].cl)]
  /\ UNCHANGED <<storeVars, devVars, lud, pageVars>>

\* await detector.current.detect(video) resolves with the code raw (<<>>: no
\* code): if (codes && codes.length) processScan(codes[0].rawValue)
EmbDetectResolve(raw) ==
  /\ emb.pending # <<>>
  /\ LET e == [emb EXCEPT !.pending = Tail(@)] IN
     emb' = IF raw = <<>> THEN e ELSE EmbScannedIn(e, Head(emb.pending), raw)
  /\ UNCHANGED <<storeVars, devVars, lud, pageVars>>

\* the interval fires without a detector: jsQR on the frame finds the code raw
EmbJsQR(raw) ==
  /\ emb.cam # <<>> /\ ~emb.cam[1].native
  /\ emb' = IF raw = <<>> THEN emb ELSE EmbScannedIn(emb, emb.cam[1].cl, raw)
  /\ UNCHANGED <<storeVars, devVars, lud, pageVars>>

\* "Clear scanned table?", confirmed: setScanTable([])
EmbClearTable ==
  /\ emb' = [emb EXCEPT !.scanTable = <<>>]
  /\ UNCHANGED <<storeVars, devVars, lud, pageVars>>

\* payloads: subject E1 with two scopes, with blanks around the parts, without
\* a subject, without a scope, and blank
EmbPayloads ==
  { <<"E", "1", "+", "D", "+", "M">>,
    <<"E", "1", "+", "D", "+", "A">>,
    <<" ", "E", "1", " ", "+", "D", "+", "M", " ">>,
    <<"+", "D", "+", "M">>,
    <<"E", "1">>,
    <<" ">> }

\* records a paid list may hold: the subject E1; another subject with the same
\* digits; one whose digits end in them; one with no digits in the enrollment
\* and a phone equal to them
PaidRecords ==
  { [enrollment |-> <<"E", "1">>, phone |-> <<"9", "0">>, name |-> <<"n">>],
    [enrollment |-> <<"X", "1">>, phone |-> <<"9", "2">>, name |-> <<"m">>],
    [enrollment |-> <<"E", "2", "1">>, phone |-> <<"9", "3">>, name |-> <<>>],
    [enrollment |-> <<"A">>, phone |-> <<"1">>, name |-> <<"k">>] }

\* paid lists of up to two records
PaidLists ==
  {<<>>} \cup {<<r>> : r \in PaidRecords}
         \cup {<<p[1], p[2]>> : p \in {q \in PaidRecords \X PaidRecords : q[1] # q[2]}}

(* --------------------------- specifications --------------------------- *)
\* tickGuard, tickCalls: the guard found by the last tick that decoded a
\*   non-blank payload, and the verifyQRToken calls that tick made;
\* winDecodes, winCalls: such decodes, and verifyQRToken calls started, since
\*   the guard was last cleared (both saturate at 2);
\* heldRedeemed: a payload decoded with the guard held entered processScan;
\* lockedTickRan: a tick that began with the guard set got past its checks;
\* noFallback: the last tick that had a frame and no code from the native
\*   detector (none present, detect rejected, or no code found) ended without
\*   running jsQR;
\* stopped: stopCamera ran, and since then neither startCamera was invoked nor
\*   a payload pasted
NoHist == [tickGuard |-> "none", tickCalls |-> 0, winDecodes |-> 0, winCalls |-> 0,
           heldRedeemed |-> FALSE, lockedTickRan |-> FALSE, noFallback |-> FALSE,
           stopped |-> FALSE]

InitStore ==
  /\ store = InitialStore
  /\ now = 0
  /\ call = [c \in CallIds |-> IdleCall]

\* the component as mounted: useState and useRef initial values
InitDevice ==
  /\ scanLockedRef = FALSE
  /\ result = NoResult
  /\ scanTable = <<>>
  /\ timers = <<>>
  /\ sinceResult = Cooldown
  /\ scanTimer = FALSE
  /\ intervals = 0
  /\ streamRef = FALSE
  /\ videoSrc = FALSE
  /\ videoWidth = FALSE
  /\ detector = FALSE
  /\ starts = [gum |-> 0, play |-> 0]
  /\ ticks = 0
  /\ hist = NoHist
  /\ supportMsg = ""

\* the embedded-scope scanner with nothing in localStorage
\* cam: the live sampling interval (none, or the state its scanFrame sees and
\* whether a detector exists); pending: what the scanFrame activations awaiting
\* detect see
EmptyEmb == [paidList |-> <<>>, usedMap |-> <<>>, scanTable |-> <<>>,
             result |-> EmbNoResult, cam |-> <<>>, pending |-> <<>>]

InitEmb == emb = EmptyEmb

Init == InitStore /\ InitDevice /\ InitEmb /\ InitLud /\ InitPages

Payloads == {TokA, TokB, TokNone}
\* what the operator pastes while the camera runs
CamPastes == {TokA}

\* verifyQRToken (transaction) called concurrently from any devices
NextTxn ==
  \/ \E c \in CallIds, t \in Payloads : InvokeTxn(c, t)
  \/ \E c \in CallIds : TxGetDocs(c)
  \/ \E c \in CallIds : TxGet(c)
  \/ \E c \in CallIds : TxCommit(c)
  \/ \E c \in CallIds : StoreFails(c)
  \/ Advance

SpecTxn == Init /\ [][NextTxn]_vars

\* verifyQRToken (getDocs, then updateDoc) called concurrently
NextLu ==
  \/ \E c \in CallIds, t \in Payloads : InvokeLu(c, t)
  \/ \E c \in CallIds : LuGetDocs(c)
  \/ \E c \in CallIds : LuUpdate(c)
  \/ \E c \in CallIds : StoreFails(c)
  \/ Advance

SpecLu == Init /\ [][NextLu]_vars

\* the collection before any token was issued
InitEmpty ==
  /\ store = [d \in DocIds |-> NoData]
  /\ now = 0
  /\ call = [c \in CallIds |-> IdleCall]
  /\ InitDevice
  /\ InitLud
  /\ InitPages
  /\ InitEmb

\* the issuer alone: any sequence of generateTokens runs
NextIssue ==
  \/ \E text \in CsvTexts, k \in 0..MaxDocs : generateTokens(text, k)
  \/ Advance

SpecIssue == InitEmpty /\ [][NextIssue]_vars

\* issuance, lookups and redemptions of both variants from any devices; here
\* the admin issues for one CSV row, in one run that may end at any addDoc,
\* and two verifyQRToken calls are made (SpecIssue has the repeated runs)
StoreCsvs == {t \in CsvTexts : Len(parseCSV(t)) = 1}

NextStore ==
  \/ \E text \in StoreCsvs, k \in 0..MaxDocs :
       Present(store) = {} /\ generateTokens(text, k)
  \/ \E c \in 1..2, t \in Payloads : InvokeTxn(c, t)
  \/ \E c \in 1..2, t \in Payloads : InvokeLu(c, t)
  \/ \E c \in CallIds : TxGetDocs(c)
  \/ \E c \in CallIds : TxGet(c)
  \/ \E c \in CallIds : TxCommit(c)
  \/ \E c \in CallIds : LuGetDocs(c)
  \/ \E c \in CallIds : LuUpdate(c)
  \/ \E c \in CallIds : StoreFails(c)
  \/ Advance

SpecStore == InitEmpty /\ [][NextStore]_vars

\* the embedded-scope scanner with a paid list loaded, scanning payloads
InitLoaded ==
  /\ InitStore
  /\ InitDevice
  /\ InitLud
  /\ InitPages
  /\ \E pl \in PaidLists : emb = [EmptyEmb EXCEPT !.paidList = pl]

NextEmb == \E raw \in EmbPayloads : EmbProcessScan(raw)

SpecEmb == InitLoaded /\ [][NextEmb]_vars

\* payloads of one subject with several scopes; the date or the session of the
\* last two holds the character that joins the parts of a used-map key
ScopePayloads ==
  { <<"E", "1", "+", "D", "+", "M">>,
    <<"E", "1", "+", "D", "+", "A">>,
    <<"E", "1", "+", "D", "+", "M", "|", "X">>,
    <<"E", "1", "+", "D", "|", "M", "+", "X">> }

\* the embedded-scope scanner scanning one subject for several scopes
NextScope == \E raw \in ScopePayloads : EmbProcessScan(raw)

SpecScope == InitLoaded /\ [][NextScope]_vars

\* the same device with Start and Stop pressed at any time and the payloads
\* pasted: no sampling tick is taken (a decode of the camera reaches no
\* redemption, the guard being set before processScan is called)
NextStop ==
  \/ \E v \in CamPastes : InFlight = {} /\ handleManualPaste(v)
  \/ (starts.gum + starts.play = 0 /\ startCamera)
  \/ GumResolve
  \/ GumReject
  \/ PlayResolve
  \/ PlayReject
  \/ stopCamera
  \/ TimerFire
  \/ Advance
  \/ \E c \in CallIds : TxGetDocs(c)
  \/ \E c \in CallIds : TxGet(c)
  \/ \E c \in CallIds : TxCommit(c)

SpecStop == Init /\ [][NextStop]_vars

\* the same device with Start pressed at any time, also while an earlier
\* startCamera is awaiting getUserMedia or play
NextStart ==
  \/ \E v \in CamPastes : InFlight = {} /\ handleManualPaste(v)
  \/ startCamera
  \/ GumResolve
  \/ GumReject
  \/ PlayResolve
  \/ PlayReject
  \/ stopCamera
  \/ TimerFire
  \/ Advance
  \/ \E c \in CallIds : TxGetDocs(c)
  \/ \E c \in CallIds : TxGet(c)
  \/ \E c \in CallIds : TxCommit(c)

SpecStart == Init /\ [][NextStart]_vars

\* what the camera of the embedded-scope scanner may show: no code, or the
\* payload of the subject E1 for one scope
EmbCodes == {<<>>, <<"E", "1", "+", "D", "+", "M">>}

\* the embedded-scope scanner with its camera and the paste prompt
NextEmbCam ==
  \/ EmbStartCamera
  \/ EmbStopCamera
  \/ EmbScanFrame
  \/ \E raw \in EmbCodes : EmbDetectResolve(raw)
  \/ \E raw \in EmbCodes : EmbJsQR(raw)
  \/ \E raw \in EmbCodes \ {<<>>} : EmbProcessScan(raw)
  \/ EmbClearTable

SpecEmbCam == InitLoaded /\ [][NextEmbCam]_vars

\* one device running the lookup-then-update scanner, with its camera and
\* the paste prompt
NextLud ==
  \/ \E v \in LudPastes : LudPaste(v)
  \/ LudStartCamera
  \/ LudStopCamera
  \/ LudScanFrame
  \/ \E raw \in LudCodes : LudDetectResolve(raw)
  \/ \E raw \in LudCodes : LudJsQR(raw)
  \/ \E c \in CallIds : LuGetDocs(c)
  \/ \E c \in CallIds : LuUpdate(c)
  \/ \E c \in CallIds : StoreFails(c)

SpecLud == Init /\ [][NextLud]_vars

\* the student page next to one conductor's device that redeems the token of
\* the going trip
NextStudent ==
  \/ \E v \in StuPhones : StuSetPhone(v)
  \/ \E v \in StuDates : StuSetExamDate(v)
  \/ \E v \in StuTrips : StuSetTripType(v)
  \/ generateQR
  \/ \E i \in 1..MaxQueries : StuGetDocsResolve(i)
  \/ \E i \in 1..MaxQueries : StuGetDocsReject(i)
  \/ InvokeTxn(1, TokA)
  \/ TxGetDocs(1)
  \/ TxGet(1)
  \/ TxCommit(1)

SpecStudent == Init /\ [][NextStudent]_vars

\* the guarded scanner with the two stored tokens pasted, the second also
\* while the verification of the first is in flight, and the table cleared at
\* any time
LedgerPastes == {TokA, TokB}

NextLedger ==
  \/ \E v \in LedgerPastes : Cardinality(InFlight) <= 1 /\ handleManualPaste(v)
  \/ ClearTable
  \/ TimerFire
  \/ Advance
  \/ \E c \in CallIds : TxGetDocs(c)
  \/ \E c \in CallIds : TxGet(c)
  \/ \E c \in CallIds : TxCommit(c)

SpecLedger == Init /\ [][NextLedger]_vars

\* both scanners with their clear buttons: the guarded scanner scanning the
\* token a, the embedded-scope scanner with the subject E1 on its paid list
InitClear ==
  /\ InitStore
  /\ InitDevice
  /\ InitLud
  /\ InitPages
  /\ emb = [EmptyEmb EXCEPT !.paidList =
              <<[enrollment |-> <<"E", "1">>, phone |-> <<"9", "0">>, name |-> <<"n">>]>>]

ClearPayloads == {<<"E", "1", "+", "D", "+", "M">>, <<"E", "1", "+", "D", "+", "A">>}

NextClear ==
  \/ (InFlight = {} /\ handleManualPaste(<<"a", " ">>))
  \/ ClearTable
  \/ TimerFire
  \/ Advance
  \/ \E c \in CallIds : TxGetDocs(c)
  \/ \E c \in CallIds : TxGet(c)
  \/ \E c \in CallIds : TxCommit(c)
  \/ \E raw \in ClearPayloads : EmbProcessScan(raw)
  \/ EmbClearTable

SpecClear == InitClear /\ [][NextClear]_vars

\* one device running the guarded scanner, operated by paste only
NextGuard ==
  \/ \E v \in PastePayloads : handleManualPaste(v)
  \/ ClearTable
  \/ TimerFire
  \/ Advance
  \/ \E c \in CallIds : TxGetDocs(c)
  \/ \E c \in CallIds : TxGet(c)
  \/ \E c \in CallIds : TxCommit(c)
  \/ \E c \in CallIds : StoreFails(c)

SpecGuard == Init /\ [][NextGuard]_vars

\* the store answers, time passes and due timeouts run; the operator and the
\* camera are under no obligation
FairGuard ==
  /\ WF_vars(Advance)
  /\ WF_vars(TimerFire)
  /\ \A c \in CallIds : WF_vars(TxGetDocs(c) \/ TxGet(c) \/ TxCommit(c))

\* the same device with an operator who pastes the next payload once the
\* verification of the last one has returned (unlock timeouts may be pending)
NextScan ==
  \/ \E v \in PastePayloads : InFlight = {} /\ handleManualPaste(v)
  \/ ClearTable
  \/ TimerFire
  \/ Advance
  \/ \E c \in CallIds : TxGetDocs(c)
  \/ \E c \in CallIds : TxGet(c)
  \/ \E c \in CallIds : TxCommit(c)
  \/ \E c \in CallIds : StoreFails(c)

SpecScan == Init /\ [][NextScan]_vars

SpecScanLive == SpecScan /\ FairGuard

\* time passes and due timeouts run, but the store is under no obligation to
\* answer a request
FairTime ==
  /\ WF_vars(Advance)
  /\ WF_vars(TimerFire)

SpecScanSilent == SpecScan /\ FairTime

\* one device running the guarded scanner with its camera; here the operator
\* pastes while no verification is in flight and presses Start while no
\* earlier startCamera is pending (SpecGuard has the overlapping pastes)
NextCam ==
  \/ \E v \in CamPastes : InFlight = {} /\ handleManualPaste(v)
  \/ scanFrame
  \/ DetectResolve
  \/ DetectReject
  \/ (starts.gum + starts.play = 0 /\ startCamera)
  \/ GumResolve
  \/ GumReject
  \/ PlayResolve
  \/ PlayReject
  \/ stopCamera
  \/ TimerFire
  \/ Advance
  \/ \E c \in CallIds : TxGetDocs(c)
  \/ \E c \in CallIds : TxGet(c)
  \/ \E c \in CallIds : TxCommit(c)

SpecCam == Init /\ [][NextCam]_vars

SpecCamLive == SpecCam /\ FairGuard

(* ------------------------------ claims -------------------------------- *)
Done(c) == call[c].pc = "done"
CallsOf(token) == {c \in CallIds : call[c].pc # "idle" /\ call[c].token = token}
StoredTokens == {store[d].token : d \in DocIds}
Successes(token) == {c \in CallsOf(token) : Done(c) /\ call[c].status = "success"}

\* C1: when N >= 1 calls presenting one stored token have all returned and no
\* store request failed, exactly one returned 'success' and all the others
\* 'used'; and at no time have two calls returned 'success' for one token.
C1_ExactlyOneSuccess ==
  \A t \in StoredTokens :
    /\ Cardinality(Successes(t)) <= 1
    /\ (/\ CallsOf(t) # {}
        /\ \A c \in CallsOf(t) : Done(c) /\ ~call[c].failed)
       => /\ Cardinality(Successes(t)) = 1
          /\ \A c \in CallsOf(t) \ Successes(t) : call[c].status = "used"

\* three calls on one token, all started before any had succeeded
C1_Witness ==
  /\ Cardinality(CallsOf(TokA)) = 3
  /\ \A c \in CallsOf(TokA) : Done(c) /\ ~call[c].failed /\ ~call[c].afterSuccess
  /\ Cardinality(Successes(TokA)) = 1

\* C2: in the lookup-then-update variant two calls that both observed
\* used = false on one record and whose requests did not fail have both
\* returned 'success' and both written the record.
C2_BothObserveUnusedBothSucceed ==
  \A c1, c2 \in CallIds :
    (/\ c1 # c2 /\ Done(c1) /\ Done(c2)
     /\ call[c1].ref # 0 /\ call[c1].ref = call[c2].ref
     /\ ~call[c1].snap.used /\ ~call[c2].snap.used
     /\ ~call[c1].failed /\ ~call[c2].failed)
    => /\ call[c1].status = "success" /\ call[c2].status = "success"
       /\ call[c1].writes = 1 /\ call[c2].writes = 1
       /\ store[call[c1].ref].ver >= 2

\* two calls on one unused token both returned 'success'
C2_Witness ==
  \E c1, c2 \in CallIds :
    /\ c1 # c2 /\ call[c1].token = TokA /\ call[c2].token = TokA
    /\ Done(c1) /\ Done(c2)
    /\ ~call[c1].snap.used /\ ~call[c2].snap.used
    /\ call[c1].status = "success" /\ call[c2].status = "success"
    /\ call[c1].writes = 1 /\ call[c2].writes = 1

\* C3: a call started after a 'success' was returned for its token, and whose
\* store requests did not fail, returns 'used' with the usedAt the successful
\* transaction wrote and with its scope; the stored usedAt stays that value.
C3_IdempotentObservation ==
  /\ \A c \in CallIds :
       (Done(c) /\ call[c].afterSuccess /\ ~call[c].failed)
       => /\ call[c].status = "used"
          /\ \E s \in Successes(call[c].token) :
               /\ call[c].data.usedAt = <<call[s].usedAt>>
               /\ call[c].data.examDate = call[s].data.examDate
               /\ call[c].data.tripType = call[s].data.tripType
  /\ \A s \in CallIds :
       (Done(s) /\ call[s].status = "success")
       => store[call[s].ref].usedAt = <<call[s].usedAt>>

\* a later call returned 'used' at a time when the clock had moved on
C3_Witness ==
  \E c \in CallIds :
    /\ Done(c) /\ call[c].afterSuccess /\ call[c].status = "used"
    /\ call[c].token = TokA
    /\ \E t \in 0..MaxNow : call[c].data.usedAt = <<t>> /\ t < call[c].usedAt

TotalMutations == store[1].ver + store[2].ver

\* C4: a call that returned 'success' made exactly one mutation of the store,
\* a call that returned 'invalid', 'used' or 'error' none, and the store has
\* been mutated exactly as often as calls have returned 'success'.
C4_OneMutationPerSuccess ==
  /\ \A c \in CallIds :
       Done(c) => call[c].writes = (IF call[c].status = "success" THEN 1 ELSE 0)
  /\ TotalMutations = Cardinality({c \in CallIds : Done(c) /\ call[c].status = "success"})
  /\ \A d \in DocIds : store[d].used <=> store[d].ver > 0

\* one call of each kind of outcome next to a success
C4_Witness ==
  /\ \E c \in CallIds : Done(c) /\ call[c].status = "success"
  /\ \E c \in CallIds : Done(c) /\ call[c].status = "used"
  /\ \E c \in CallIds : Done(c) /\ call[c].status = "error" /\ call[c].ref # 0


\* C5: when two camera ticks have decoded a non-blank payload since the guard
\* was last clear, exactly one verifyQRToken call has been started since then.
C5_SingleFlight == hist.winDecodes = 2 => hist.winCalls = 1

\* C6: at most one verifyQRToken call of the device is in flight.
C6_AtMostOneInFlight == Cardinality(InFlight) <= 1

\* C7: the last tick that decoded a non-blank payload with the guard clear
\* made exactly one verifyQRToken call.
C7_DecodeToRedeem == hist.tickGuard = "clear" => hist.tickCalls = 1

\* C8: whenever the guard is set it is eventually cleared again, the store
\* answering and time passing, whatever the operator does or does not do.
C8_RearmLiveness == scanLockedRef ~> ~scanLockedRef

\* C9: while fewer than 1500 ms have passed since a 'success' or 'used' result
\* was displayed, the guard is held.
C9_CooldownRespected == ~scanLockedRef => sinceResult >= Cooldown

\* C10: no tick that began with the guard set got past its checks, and no
\* payload decoded while the guard was held has entered a redemption: the
\* tick that decoded it made no verifyQRToken call.
C10_LockedTicksDropped ==
  /\ ~hist.lockedTickRan
  /\ ~hist.heldRedeemed
  /\ hist.tickGuard = "held" => hist.tickCalls = 0

\* a payload was decoded while a pasted token's redemption held the guard, the
\* guard has since been cleared, and no redemption is running or was recorded
C10_Witness ==
  /\ hist.tickGuard = "held" /\ hist.tickCalls = 0
  /\ result.type \in {"paid", "used"}
  /\ ~scanLockedRef /\ timers = <<>> /\ InFlight = {}
  /\ ticks = 0

\* C11: when getDocs answers a scan whose trimmed payload matches no stored
\* token, verifyQRToken returns 'invalid': the device sets and draws the
\* invalid result for that payload, and the store and the table are unchanged.
C11_UnknownTokenInvalid ==
  [][\A c \in CallIds :
       (/\ call[c].origin # "direct" /\ call[c].token # <<>>
        /\ QueryByToken(store, call[c].token) = {}
        /\ TxGetDocs(c))
       => /\ result'.type = "notpaid" /\ result'.raw = call[c].token
          /\ Rendered(result') = "notpaid"
          /\ store' = store
          /\ scanTable' = scanTable]_vars

\* the unknown token was denied on a device whose table and store hold a
\* redemption made before
C11_Witness ==
  /\ result.type = "notpaid" /\ result.raw = TokNone
  /\ Len(scanTable) = 1
  /\ store[1].used

\* C12: processing a pasted payload that is blank after trim() sets and draws
\* the invalid result and starts no verifyQRToken call.
C12_BlankPayloadInvalid ==
  [][\A v \in PastePayloads :
       (v # <<>> /\ Trim(v) = <<>> /\ handleManualPaste(v))
       => /\ result'.type = "notpaid"
          /\ Rendered(result') = "notpaid"
          /\ call' = call]_vars

\* C13: when a store request of a scan fails, the device sets and draws an
\* error result, adds nothing to the table, and has an unlock timeout pending
\* that clears the guard.
C13_ErrorShownAndRearmed ==
  [][\A c \in CallIds :
       (call[c].origin # "direct" /\ StoreFails(c))
       => /\ result'.type = "error"
          /\ Rendered(result') = "error"
          /\ scanTable' = scanTable
          /\ store' = store
          /\ timers' # <<>>]_vars

\* C14: a verifyQRToken call of the device that is awaited leads to the guard
\* being cleared, even if the store never answers the call.
C14_TimeoutSurfaces == (InFlight # {}) ~> ~scanLockedRef

\* C15: a verifyQRToken call of the device starts only in a step in which the
\* operator pastes, one call per paste; a call sends its lookup once; and when
\* a call ends in 'error' no request of the device for it remains or is issued.
C15_NoAutomaticRetry ==
  [][/\ (InFlight' \ InFlight # {})
        => /\ Cardinality(InFlight' \ InFlight) = 1
           /\ \E v \in PastePayloads : handleManualPaste(v)
     /\ \A c \in CallIds :
          (call[c].pc \in {"txGet", "txCommit"}) => call'[c].pc # "getDocs"
     /\ \A c \in CallIds :
          (call[c].origin # "direct" /\ StoreFails(c))
          => InFlight' = InFlight \ {c}]_vars

\* a scan ended in 'error', its cooldown has run out and the device is idle:
\* nothing was issued for the payload again
C15_Witness ==
  /\ result.type = "error" /\ result.raw = TokA
  /\ InFlight = {}
  /\ ~scanLockedRef /\ timers = <<>>

\* C18: the store holds no two tokens for one (phone, examDate, tripType), and
\* no two documents with one token string.
C18_OneTokenPerCombination ==
  \A d1, d2 \in Present(store) :
    d1 # d2 => /\ store[d1].token # store[d2].token
               /\ <<store[d1].phone, store[d1].examDate, store[d1].tripType>>
                  # <<store[d2].phone, store[d2].examDate, store[d2].tripType>>

\* C16: a document is created with used = false, and a document whose used is
\* true keeps it true in every step of issuance, lookup and redemption.
C16_UsedMonotone ==
  [][\A d \in DocIds :
       /\ store[d].used => store'[d].used
       /\ (d \notin Present(store) /\ d \in Present(store')) => ~store'[d].used]_vars

\* a complete run issued ten tokens, the first was redeemed and a later call
\* on it returned 'used'
C16_Witness ==
  /\ Cardinality(Present(store)) = Len(ExamDates) * Len(TripTypes)
  /\ store[1].used /\ ~store[2].used
  /\ \E c \in CallIds : Done(c) /\ call[c].status = "used" /\ call[c].token = TokA

\* C17: a document has usedAt set exactly if its used flag is true.
C17_UsedAtIffUsed ==
  \A d \in DocIds : (store[d].usedAt # Undefined) <=> store[d].used

\* one token redeemed by the transaction, one by the lookup-then-update
\* variant, next to tokens still unused
C17_Witness ==
  /\ \E c \in CallIds : /\ Done(c) /\ call[c].status = "success"
                        /\ call[c].variant = "txn"
                        /\ store[call[c].ref].usedAt # Undefined
  /\ \E c \in CallIds : /\ Done(c) /\ call[c].status = "success"
                        /\ call[c].variant = "lu"
                        /\ store[call[c].ref].usedAt # Undefined
  /\ \E d \in Present(store) : ~store[d].used /\ store[d].usedAt = Undefined

\* C19: a success result, and every entry of the table, carries the phone its
\* token was issued for and the token's examDate and tripType.
C19_SuccessCarriesSubjectAndScope ==
  /\ result.type = "paid"
     => \E d \in Present(store) :
          /\ store[d].token = result.raw
          /\ result.contact = <<store[d].phone>>
          /\ result.examDate = store[d].examDate
          /\ result.session = store[d].tripType
  /\ \A i \in 1..Len(scanTable) :
       \E d \in Present(store) :
         /\ store[d].used
         /\ scanTable[i].contact = <<store[d].phone>>
         /\ scanTable[i].examDate = store[d].examDate
         /\ scanTable[i].session = store[d].tripType

\* C20: when a scan of a payload subject+date+session succeeds, the result
\* carries the payload's own subject and its date and session.
C20_ScopeFidelity ==
  [][\A raw \in EmbPayloads :
       (/\ parseQRValue(raw).date # <<>> /\ parseQRValue(raw).session # <<>>
        /\ EmbProcessScan(raw) /\ emb'.result.type = "paid")
       => LET parsed == parseQRValue(raw) IN
          /\ emb'.result.rec.enrollment = parsed.enrollment
          /\ emb'.result.examDate = parsed.date
          /\ emb'.result.session = parsed.session]_vars

\* the kind of signal the claim names for an outcome of verifyQRToken
KindOf(status) ==
  IF status = "success" THEN "paid"
  ELSE IF status = "used" THEN "used"
  ELSE IF status = "invalid" THEN "notpaid"
  ELSE "error"

\* C21: in the step in which the outcome of a scan's verifyQRToken call
\* arrives, the result set is of the kind of the outcome, render draws a block
\* for that kind, and the guard is still held.
C21_EveryOutcomeSignalled ==
  [][\A c \in CallIds :
       (call[c].origin # "direct" /\ call[c].pc # "idle" /\ call'[c].pc = "idle")
       => /\ StoreFails(c) => result'.type = KindOf("error")
          /\ TxGetDocs(c) => result'.type = KindOf("invalid")
          /\ TxCommit(c) => result'.type = KindOf(call[c].pend.status)
          /\ Rendered(result') = result'.type
          /\ scanLockedRef']_vars

\* the step is the return of call c of the device with 'success'
ReturnsSuccess(c) ==
  /\ call[c].origin # "direct" /\ call[c].pc = "txCommit"
  /\ call[c].pend.status = "success"
  /\ ~(call[c].pend.write /\ Stale(c))
  /\ TxCommit(c)

\* C22: scanTable grows only in the step in which a call of the device
\* returns 'success', by exactly one entry put in front; every other outcome
\* and every paste leaves it as it is; it shrinks only by the clear action.
C22_LedgerOnlyOnSuccess ==
  [][/\ \A c \in CallIds :
          ReturnsSuccess(c) => /\ Len(scanTable') = Len(scanTable) + 1
                               /\ Tail(scanTable') = scanTable
     /\ (scanTable' # scanTable /\ ~\E c \in CallIds : ReturnsSuccess(c))
          => (ClearTable /\ scanTable' = <<>>)
     /\ \A v \in PastePayloads : handleManualPaste(v) => scanTable' = scanTable]_vars

\* the table still holds the one entry of a success after a later scan of the
\* same token was answered 'used'
C22_Witness ==
  /\ Len(scanTable) = 1
  /\ result.type = "used" /\ result.raw = TokA
  /\ store[1].used

\* C23: the outcome of scanning a payload on the embedded-scope scanner is the
\* same on the device as it is and on the same device with its local used
\* list and its scan table emptied.
C23_LedgerNonAuthoritative ==
  \A raw \in EmbPayloads :
    EmbScanned(emb, raw).result.type
      = EmbScanned([emb EXCEPT !.usedMap = <<>>, !.scanTable = <<>>], raw).result.type

\* the entries of the used list of the embedded-scope scanner
UsedEntries == {emb.usedMap[k] : k \in DOMAIN emb.usedMap}

\* C24: either clear action changes nothing but its scan table; after it a
\* scan of a token that is used in the store is answered 'used', and a scan of
\* a payload admitted on the embedded-scope scanner gives 'used'.
C24_ClearOnlyClearsTable ==
  [][/\ ClearTable
        => /\ store' = store /\ call' = call /\ emb' = emb
           /\ result' = result /\ scanLockedRef' = scanLockedRef
     /\ EmbClearTable
        => /\ emb'.usedMap = emb.usedMap /\ emb'.paidList = emb.paidList
           /\ emb'.result = emb.result /\ store' = store
     /\ \A c \in CallIds :
          (/\ call[c].origin # "direct" /\ call[c].pc = "txCommit"
           /\ call[c].snap.used /\ TxCommit(c))
          => result'.type = "used"
     /\ \A u \in UsedEntries :
          EmbScanned(emb', u.raw).result.type = "used"]_vars

\* on both scanners the table is empty after a clear, the admission made
\* before it stands and a scan made after it was answered 'used'
C24_Witness ==
  /\ scanTable = <<>> /\ store[1].used /\ store[1].usedAt # Undefined
  /\ result.type = "used" /\ result.raw = TokA
  /\ emb.scanTable = <<>> /\ emb.usedMap # <<>>
  /\ emb.result.type = "used"

\* the subject rec was admitted for the scope (date, session)
AdmittedFor(rec, date, session) ==
  \E u \in UsedEntries : u.rec = rec /\ u.examDate = date /\ u.session = session

\* C25: a scan of a subject that was admitted for some scope, with a scope for
\* which it was not admitted, is admitted ('paid'), not reported as used.
C25_ReusePerScope ==
  \A raw \in ScopePayloads :
    LET parsed == parseQRValue(raw)
        i == findStudent(emb.paidList, parsed.enrollment)
    IN (/\ i # 0
        /\ \E u \in UsedEntries : u.rec = emb.paidList[i]
        /\ ~AdmittedFor(emb.paidList[i], parsed.date, parsed.session))
       => EmbScanned(emb, raw).result.type = "paid"

\* C26: a tick that had a frame and got no code from the native detector
\* (none present, or detect found no code) ran jsQR on the frame.
C26_DecoderFallback == ~hist.noFallback

\* C27: once stopCamera has run and startCamera was not invoked since, no
\* sampling interval is live, no stream is held or attached, and no unlock
\* timeout is pending.
C27_StopMeansIdle ==
  hist.stopped => /\ intervals = 0 /\ ~scanTimer
                  /\ ~streamRef /\ ~videoSrc
                  /\ timers = <<>>

\* a step of the transaction of call c
TxStep(c) == TxGetDocs(c) \/ TxGet(c) \/ TxCommit(c)

\* C28: stopCamera touches neither the calls in flight nor the store; a call
\* in flight when the camera was stopped can take its next step (as long as
\* the unlock timeouts pending are fewer than MaxTimers); every token
\* record is unused without usedAt or used with usedAt; and a used record
\* stays used with the usedAt it has.
C28_InFlightSurvivesStop ==
  /\ [][stopCamera => (call' = call /\ store' = store)]_vars
  /\ [](\A c \in InFlight :
          (hist.stopped /\ Len(timers) < MaxTimers) => ENABLED TxStep(c))
  /\ [](\A d \in DocIds : store[d].used <=> store[d].usedAt # Undefined)
  /\ [][\A d \in DocIds : store[d].used
          => (store'[d].used /\ store'[d].usedAt = store[d].usedAt)]_vars

\* the camera was stopped with a verification in flight, whose transaction is
\* about to commit its write
C28_Witness ==
  /\ hist.stopped
  /\ \E c \in InFlight : /\ call[c].pc = "txCommit" /\ call[c].pend.write
                          /\ ~store[call[c].ref].used

\* startCamera finds no camera API, or its getUserMedia is rejected
CaptureFails ==
  \/ (startCamera /\ supportMsg' = MsgUnavailable)
  \/ GumReject

\* C29: when startCamera finds no camera API or its getUserMedia is rejected,
\* a message of the failure is shown, no sampling interval is started, the
\* store and the scan table stay as they are and no sampling interval is live
\* afterwards; from then on an interval becomes live only when a startCamera
\* gets through (play resolves).
C29_CaptureUnavailable ==
  [][/\ CaptureFails
        => /\ supportMsg' \in {MsgUnavailable, MsgDenied}
           /\ intervals' <= intervals
           /\ store' = store /\ scanTable' = scanTable
           /\ intervals' = 0
     /\ (intervals = 0 /\ intervals' > 0) => PlayResolve]_vars

\* a payload reaches processScan: by paste, from the detector, or from jsQR
EmbScanStep(raw) == EmbProcessScan(raw) \/ EmbDetectResolve(raw) \/ EmbJsQR(raw)

\* C30: the scan table of the embedded-scope scanner never holds two entries
\* with the same enrollment, date and session, and a scan of a payload whose
\* (subject, date, session) was admitted before is answered 'used'.
C30_EmbAtMostOnce ==
  /\ [](\A i, j \in 1..Len(emb.scanTable) :
          (/\ emb.scanTable[i].enrollment = emb.scanTable[j].enrollment
           /\ emb.scanTable[i].examDate = emb.scanTable[j].examDate
           /\ emb.scanTable[i].session = emb.scanTable[j].session) => i = j)
  /\ [][\A raw \in EmbCodes \ {<<>>} :
          LET parsed == parseQRValue(raw)
              i == findStudent(emb.paidList, parsed.enrollment)
          IN (/\ i # 0
              /\ AdmittedFor(emb.paidList[i], parsed.date, parsed.session)
              /\ EmbScanStep(raw))
             => emb'.result.type = "used"]_vars

\* C31: the ticks begun since the last startCamera of the lookup-then-update
\* scanner have made at most one processScan call and at most one
\* verifyQRToken call.
C31_OneScanPerSession == lud.scans <= 1 /\ lud.verifies <= 1

\* C32: after a processScan call of the lookup-then-update scanner that ended
\* 'invalid', 'used' or 'error', the result on display is not 'paid'.
C32_NoStaleAdmission ==
  lud.last \in {"invalid", "used", "error"} => lud.result # "paid"

\* C33: a step that changes an existing token record is the write of a
\* verifyQRToken call presenting the token of that record, and it changes
\* used and usedAt only (ver is the store's own version of the document).
C33_RedemptionTouchesOneRecord ==
  [][\A d \in Present(store) :
       store'[d] # store[d]
       => /\ \E c \in CallIds : /\ call[c].pc \in {"txCommit", "update"}
                                /\ call'[c] # call[c]
                                /\ call[c].token = store[d].token
          /\ store'[d] = [store[d] EXCEPT !.used = store'[d].used,
                                          !.usedAt = store'[d].usedAt,
                                          !.ver = store'[d].ver]]_vars

\* a call has redeemed its token next to a token of the same phone that is
\* still as issued
C33_Witness ==
  \E c \in CallIds :
    /\ Done(c) /\ call[c].status = "success"
    /\ store[call[c].ref].token = call[c].token
    /\ store[call[c].ref].used
    /\ \E d \in Present(store) \ {call[c].ref} :
         /\ store[d].phone = store[call[c].ref].phone
         /\ store[d] = NewTokenDoc(store[d].token, store[d].phone,
                                   store[d].examDate, store[d].tripType)

\* C34: the ids of the scan table of the guarded scanner count down from the
\* table length to 1, newest entry first (so they are pairwise distinct), and
\* a step that inserts an entry puts it first with the new table length as id
\* and keeps the entries that were there.
C34_LedgerIds ==
  /\ [](\A i \in 1..Len(scanTable) : scanTable[i].id = Len(scanTable) - i + 1)
  /\ [][Len(scanTable') > Len(scanTable)
        => /\ Head(scanTable').id = Len(scanTable')
           /\ Tail(scanTable') = scanTable]_vars

\* both stored tokens were redeemed and the table holds their two entries
C34_Witness ==
  /\ Len(scanTable) = 2
  /\ store[1].used /\ store[2].used
  /\ scanTable[1].id = 2 /\ scanTable[2].id = 1

\* the lines of the CSV text that hold a student: the lines that are not
\* blank, but for the first of them
DataRows(text) ==
  LET lines == SplitOn(text, "\n")
      full == {i \in 1..Len(lines) : Trim(lines[i]) # <<>>}
  IN IF full = {} THEN 0 ELSE Cardinality(full) - 1

\* the data rows of each text the admin may have in the box
RowsOf == [text \in CsvTexts |-> DataRows(text)]

\* C35: a generateTokens run adds documents only, at the end of the
\* collection and in the order of the loops; when it reports success it has
\* added exactly (data rows) x 5 x 2 documents and reports that number; when
\* an addDoc rejected it has added fewer, those written before the rejection,
\* and shows the error.  The steps looked at are those that change the page
\* or the set of documents.
C35_IssuanceSequential ==
  [][/\ adm'.csvText \in CsvTexts
     /\ LET n == Cardinality(Present(store))
            k == Cardinality(Present(store')) - n
            total == RowsOf[adm'.csvText] * Len(ExamDates) * Len(TripTypes)
            plan == PlanOf[adm'.csvText]
        IN /\ Present(store') = 1..(n + k)
           /\ \A d \in Present(store) : store'[d] = store[d]
           /\ \A d \in (n + 1)..(n + k) :
                /\ ~store'[d].used
                /\ store'[d].phone = plan[d - n].phone
                /\ store'[d].examDate = plan[d - n].examDate
                /\ store'[d].tripType = plan[d - n].tripType
           /\ IF adm'.status.kind = "generated"
                THEN k = total /\ adm'.status.count = total
                ELSE k < total /\ adm'.status = StatusError
    ]_<<adm, Present(store)>>

\* a complete run for one student was made after a run that failed at its
\* fourth addDoc
C35_Witness ==
  /\ Cardinality(Present(store)) = 13
  /\ adm.status = StatusDone(10)

\* C36: on the student page (a) a token appears only when a query resolves
\* with a record that is unused at that moment and equals the three inputs
\* of the call, all of them non-empty, and the token shown is that record's;
\* (b) a press with a field empty sends no query; (c) after a call that found
\* no record or whose query failed, no token is shown and the message is
\* set; (d) after a press no token is shown until a query resolves.
C36_StudentDisplay ==
  /\ [][stu'.token # <<>> /\ stu'.token # stu.token
          => \E i \in 1..Len(stu.pending) :
               LET q == stu.pending[i]
               IN /\ q.phone # "" /\ q.examDate # "" /\ q.tripType # ""
                  /\ \E d \in StuQueryDocs(store, q) :
                       stu'.token = store[d].token]_vars
  /\ [][stu'.last = "blank" => stu'.pending = stu.pending]_vars
  /\ [](stu.last \in {"nomatch", "failed"}
          => stu.token = <<>> /\ stu.error \in {MsgNoValid, MsgFailed})
  /\ [](stu.last \in {"blank", "sent"} => stu.token = <<>>)

\* a token is on the page
C36_Witness == stu.last = "match" /\ stu.token = TokA

====
